---- MODULE Spec2Model ----
(***************************************************************************)
(* lib_strings: a growable, null-terminated byte string whose length and   *)
(* capacity live in a `struct meta` next to the character storage.         *)
(*                                                                         *)
(* The repository holds three revisions of the implementation:             *)
(*   "libstrings.c"  src/src/libstrings.c   (string_cat*, no cut/printf)   *)
(*   "part_001"      src/unnamed/part_001   (char *string, meta header)    *)
(*   "part_000"      src/unnamed/part_000   (struct string { char *value })*)
(* The model runs one of them, chosen in Init.                             *)
(*                                                                         *)
(* C indices are 0-based, TLA+ sequences 1-based: bytes[i] is value[i+1].  *)
(***************************************************************************)
EXTENDS Integers, Sequences, FiniteSets, TLC

VARIABLES
    variant,    \* which revision of the library is linked
    str,        \* the caller's string (meta + storage), or NullStr
    copy,       \* a second string, made by string_dup(str), or NullStr
    op,         \* name of the last public call
    args,       \* arguments of the last public call
    ret,        \* what the last call returned
    res,        \* string_printf: the int it returned
    nalloc,     \* allocator calls made by the last call
    refused,    \* the allocator refused a request of the last call
    saved,      \* what str held before the last call, when that call grew it
    roundtrip,  \* set by string_cut when it undoes the growth before it
    undefined,  \* the last call ran into undefined behaviour
    heap,       \* number of blocks obtained from the allocator and not freed
    via         \* the static functions the last call went through

vars == <<variant, str, copy, op, args, ret, res, nalloc, refused, saved,
          roundtrip, undefined, heap, via>>

(* ------------------------------ bounds --------------------------------- *)

\* width of size_t, scaled down from 64 bits
SizeBits == 6
\* longest content the callers build, and longest array they hand over
MaxLen == 2

\* largest size asked of string_reserve
MaxReserve == MaxLen + 2

SizeMod == 2 ^ SizeBits
SIZE_MAX == SizeMod - 1

\* size_t arithmetic
Wrap(n) == n % SizeMod

\* the bytes the callers put in their arrays: '\0' and one letter
Byte == {0, 1}
\* a byte the allocator handed out and nobody wrote yet
Indet == -1

Variants == {"libstrings.c", "part_001", "part_000"}
HasCut == {"part_001", "part_000"}

Srcs == UNION {[1 .. n -> Byte] : n \in 0 .. MaxLen}

Min(S) == CHOOSE x \in S : \A y \in S : x <= y

(* ------------------------------ libc ----------------------------------- *)

malloc(n) == [i \in 1 .. n |-> Indet]

calloc(n) == [i \in 1 .. n |-> 0]

\* keeps the common prefix; bytes gained are indeterminate
realloc(v, n) == [i \in 1 .. n |-> IF i <= Len(v) THEN v[i] ELSE Indet]

\* a read of src[i]; past the array it yields an indeterminate byte
Peek(src, i) == IF i < Len(src) THEN src[i + 1] ELSE Indet

\* dest[i] = b, when i is inside dest
Poke(dest, i, b) == IF i < Len(dest) THEN [dest EXCEPT ![i + 1] = b] ELSE dest

\* number of bytes strncpy copies before it starts padding
strnlen(src, n) ==
    LET Z == {i \in 0 .. n - 1 : Peek(src, i) = 0}
    IN  IF Z = {} THEN n ELSE Min(Z)

\* strncpy(dest + off, src + start, n): copies up to the first '\0' of the
\* source, then pads with '\0' until n bytes are written
strncpy(dest, off, src, start, n) ==
    LET tail == [i \in 1 .. Len(src) - start |-> src[i + start]]
        k == strnlen(tail, n)
    IN  [i \in 1 .. Len(dest) |->
            IF i - 1 >= off /\ i - 1 < off + n
            THEN IF i - 1 - off < k THEN Peek(tail, i - 1 - off) ELSE 0
            ELSE dest[i]]

\* memmove(dest + to, dest + from, n): as if through a temporary copy
memmove(dest, to, from, n) ==
    [i \in 1 .. Len(dest) |->
        IF i - 1 >= to /\ i - 1 < to + n
        THEN Peek(dest, from + (i - 1 - to))
        ELSE dest[i]]

(* --------------------------- the string -------------------------------- *)

NullStr == [live |-> FALSE, len |-> 0, capacity |-> 0, value |-> <<>>]

\* struct meta { len, capacity } followed by (or pointing to) the storage
MkStr(len, capacity, value) ==
    [live |-> TRUE, len |-> len, capacity |-> capacity, value |-> value]

\* the logical content, bytes [0, len)
Content(s) == [i \in 1 .. s.len |-> Peek(s.value, i - 1)]

\* what a call hands back: return code, the string, allocator traffic
\* (requests made, one refused, blocks obtained, blocks freed) and the
\* static functions that ran
Result(r, s, n, f) ==
    [ret |-> r, str |-> s, nalloc |-> n, refused |-> f, got |-> 0, freed |-> 0,
     via |-> {}]

\* the answers of the allocator to the requests of a constructor
Grants == BOOLEAN \X BOOLEAN

set_string_capacity(s, capacity, alloc) ==
    IF ~alloc
    THEN [Result("-ENOMEM", s, 1, TRUE) EXCEPT !.via = {"set_string_capacity"}]
    ELSE [Result("0",
                 [s EXCEPT !.value = realloc(@, capacity),
                           !.capacity = capacity],
                 1, FALSE)
          EXCEPT !.got = 1, !.freed = 1, !.via = {"set_string_capacity"}]

\* slip: the length is stored before the storage is known to be there
set_string_length_LenFirst(s, len, alloc) ==
    LET t == [s EXCEPT !.len = len]
    IN  IF s.capacity < Wrap(len + 1)
        THEN set_string_capacity(t, Wrap(len * 2 + 1), alloc)
        ELSE Result("0", t, 0, FALSE)

\* slip: grows to the exact size instead of doubling
set_string_length_Exact(s, len, alloc) ==
    IF s.capacity < Wrap(len + 1)
    THEN LET r == set_string_capacity(s, Wrap(len + 1), alloc)
         IN  IF r.ret # "0" THEN r ELSE [r EXCEPT !.str.len = len]
    ELSE Result("0", [s EXCEPT !.len = len], 0, FALSE)

\* slip: the terminator is written where the length is set
set_string_length_Terminates(s, len, alloc) ==
    LET t == IF s.capacity < Wrap(len + 1)
             THEN LET r == set_string_capacity(s, Wrap(len * 2 + 1), alloc)
                  IN  IF r.ret # "0" THEN r
                      ELSE [r EXCEPT !.str.len = len,
                                     !.str.value = Poke(@, len, 0)]
             ELSE Result("0", [s EXCEPT !.len = len, !.value = Poke(@, len, 0)],
                         0, FALSE)
    IN  [t EXCEPT !.via = @ \cup {"set_string_length"}]

set_string_length(s, len, alloc) ==
    LET t == IF s.capacity < Wrap(len + 1)
             THEN LET r == set_string_capacity(s, Wrap(len * 2 + 1), alloc)
                  IN  IF r.ret # "0" THEN r ELSE [r EXCEPT !.str.len = len]
             ELSE Result("0", [s EXCEPT !.len = len], 0, FALSE)
    IN  [t EXCEPT !.via = @ \cup {"set_string_length"}]

\* slip: the meta block is not given back when the storage is refused
create_string_NoFree(len, alloc) ==
    IF ~alloc[1]
    THEN Result("NULL", NullStr, 1, TRUE)
    ELSE IF ~alloc[2]
    THEN [Result("NULL", NullStr, 2, TRUE) EXCEPT !.got = 1]
    ELSE [Result("ptr", MkStr(len, Wrap(len + 1), calloc(Wrap(len + 1))), 2, FALSE)
          EXCEPT !.got = 2]

\* part_000 only: one block for the meta and the struct string, one for the
\* storage, which comes zeroed from calloc
create_string(len, alloc) ==
    IF ~alloc[1]
    THEN Result("NULL", NullStr, 1, TRUE)
    ELSE IF ~alloc[2]
    THEN [Result("NULL", NullStr, 2, TRUE) EXCEPT !.got = 1, !.freed = 1]
    ELSE [Result("ptr", MkStr(len, Wrap(len + 1), calloc(Wrap(len + 1))), 2, FALSE)
          EXCEPT !.got = 2]

sub_string(v, src, start, len, alloc) ==
    IF v = "part_000"
    THEN LET r == create_string(len, alloc)
         IN  IF r.ret = "NULL" THEN r
             ELSE [r EXCEPT !.str.value = strncpy(@, 0, src, start, len)]
    ELSE IF ~alloc[1]
    THEN Result("NULL", NullStr, 1, TRUE)
    ELSE [Result("ptr",
                 MkStr(len, Wrap(len + 1),
                       Poke(strncpy(malloc(Wrap(len + 1)), 0, src, start, len),
                            len, 0)),
                 1, FALSE)
          EXCEPT !.got = 1]

string_empty(v, alloc) ==
    IF v = "part_000"
    THEN create_string(0, alloc)
    ELSE IF ~alloc[1]
    THEN Result("NULL", NullStr, 1, TRUE)
    ELSE [Result("ptr",
                 MkStr(0, IF v = "libstrings.c" THEN 0 ELSE 1,
                       Poke(malloc(1), 0, 0)),
                 1, FALSE)
          EXCEPT !.got = 1]

\* the source pointer of string_dup is the storage of src itself
string_dup(v, src, alloc) == sub_string(v, src.value, 0, src.len, alloc)

copy_string(dest, src, len, alloc) ==
    LET r == set_string_length(dest, len, alloc)
    IN  IF r.ret # "0" THEN r
        ELSE [r EXCEPT !.str.value = Poke(strncpy(@, 0, src, 0, len), len, 0)]

\* slip: the source is written over the start of the old content
append_string_AtStart(dest, src, len, alloc) ==
    LET cur_len == dest.len
        r == set_string_length(dest, Wrap(cur_len + len), alloc)
    IN  IF r.ret # "0" THEN r
        ELSE [r EXCEPT !.str.value =
                 Poke(strncpy(@, 0, src, 0, len), Wrap(cur_len + len), 0)]

append_string(dest, src, len, alloc) ==
    LET cur_len == dest.len
        r == set_string_length(dest, Wrap(cur_len + len), alloc)
    IN  IF r.ret # "0" THEN r
        ELSE [r EXCEPT !.str.value =
                 Poke(strncpy(@, cur_len, src, 0, len), Wrap(cur_len + len), 0)]

\* slip: the old content is not moved out of the way
prepend_string_NoShift(dest, src, len, alloc) ==
    LET cur_len == dest.len
        r == set_string_length(dest, Wrap(cur_len + len), alloc)
    IN  IF r.ret # "0" THEN r
        ELSE [r EXCEPT !.str.value =
                 Poke(strncpy(@, 0, src, 0, len), Wrap(cur_len + len), 0)]

prepend_string(dest, src, len, alloc) ==
    LET cur_len == dest.len
        r == set_string_length(dest, Wrap(cur_len + len), alloc)
    IN  IF r.ret # "0" THEN r
        ELSE [r EXCEPT !.str.value =
                 Poke(strncpy(memmove(@, len, 0, cur_len), 0, src, 0, len),
                      Wrap(cur_len + len), 0)]

\* slip: the terminator is not written
string_clear_NoTerm(s) == Result("0", [s EXCEPT !.len = 0], 0, FALSE)

\* part_000 frees the storage and the meta block, the others their one block
string_destroy(v, s) ==
    [Result("void", NullStr, 0, FALSE)
     EXCEPT !.freed = IF v = "part_000" THEN 2 ELSE 1]

string_clear(s) == Result("0", [s EXCEPT !.len = 0, !.value = Poke(@, 0, 0)], 0, FALSE)

\* start is an unsigned int, len a size_t: the sum is a size_t
string_cut(s, start, len) ==
    IF s.len < Wrap(start + len)
    THEN Result("-ERANGE", s, 0, FALSE)
    ELSE Result("0",
                [s EXCEPT !.value = Poke(memmove(@, 0, start, len), len, 0),
                          !.len = len],
                0, FALSE)

\* the memmove or the terminator write of string_cut leaves the allocation
CutOverruns(s, start, len) ==
    /\ ~(s.len < Wrap(start + len))
    /\ (start + len > Len(s.value) \/ len >= Len(s.value))

\* vsnprintf(str, capacity, ...): out is the full formatted output; when the
\* formatter fails, out is what it had written by then and no terminator
\* is promised
vsnprintf(value, capacity, out, fail) ==
    IF fail
    THEN [i \in 1 .. Len(value) |->
             IF i <= Len(out) /\ i < capacity THEN out[i] ELSE value[i]]
    ELSE [i \in 1 .. Len(value) |->
             IF i <= Len(out) /\ i < capacity THEN out[i]
             ELSE IF i = Len(out) + 1 /\ i <= capacity THEN 0
             ELSE IF i = capacity /\ Len(out) >= capacity THEN 0
             ELSE value[i]]

\* slip: the length is the count the formatter returned, truncated or not
string_printf_NoClamp(s, out, fail) ==
    LET r == IF fail THEN -1 ELSE Len(out)
    IN  [res |-> r,
         str |-> [s EXCEPT
                    !.value = vsnprintf(@, s.capacity, out, fail),
                    !.len = IF r >= 0 THEN r ELSE Wrap(s.capacity - 1)]]

string_printf(s, out, fail) ==
    LET r == IF fail THEN -1 ELSE Len(out)
    IN  [res |-> r,
         str |-> [s EXCEPT
                    !.value = vsnprintf(@, s.capacity, out, fail),
                    !.len = IF r >= 0 /\ r < s.capacity
                            THEN r ELSE Wrap(s.capacity - 1)]]

\* slip: the growth policy of set_string_length applied to the request
string_reserve_Doubling(s, size, alloc) ==
    IF s.capacity >= size
    THEN Result("0", s, 0, FALSE)
    ELSE set_string_capacity(s, Wrap(size * 2 + 1), alloc)

string_reserve(s, size, alloc) ==
    IF s.capacity >= size
    THEN Result("0", s, 0, FALSE)
    ELSE set_string_capacity(s, size, alloc)

\* slip: no room kept for the terminator
string_fit_Tight(s, alloc) == set_string_capacity(s, Wrap(s.len), alloc)

string_fit(s, alloc) == set_string_capacity(s, Wrap(s.len + 1), alloc)

(* ------------------------- the calling program ------------------------- *)

\* null: the pointer arguments that are NULL; fail: the formatter of
\* string_printf fails on the format and arguments given
NoArgs == [src |-> <<>>, start |-> 0, len |-> 0, null |-> {}, fail |-> FALSE]

Args(src, start, len) ==
    [src |-> src, start |-> start, len |-> len, null |-> {}, fail |-> FALSE]

\* length, capacity and content (terminator included) of s
Snapshot(s) ==
    [len |-> s.len, capacity |-> s.capacity,
     content |-> [i \in 1 .. s.len + 1 |-> Peek(s.value, i - 1)]]

NoSnap == [len |-> 0, capacity |-> 0, content |-> <<>>]

NoTrip == [on |-> FALSE, kind |-> "none", by |-> 0, before |-> NoSnap]

GrowOps ==
    {"string_append_v", "string_prepend_v", "string_append_c", "string_prepend_c"}

\* start and len values the callers pass to string_cut
CutStarts == 0 .. MaxLen
CutLens == (0 .. MaxLen) \cup {SIZE_MAX}

\* a call on str that returned r; the caller releases a duplicate before it
\* goes on with str
Call(name, a, r) ==
    /\ ~undefined
    /\ ~copy.live
    /\ op' = name
    /\ args' = a
    /\ str' = r.str
    /\ ret' = r.ret
    /\ nalloc' = r.nalloc
    /\ refused' = r.refused
    /\ saved' = IF name \in GrowOps /\ r.ret = "0" THEN Snapshot(str) ELSE NoSnap
    /\ heap' = heap + r.got - r.freed
    /\ via' = r.via
    /\ UNCHANGED <<variant, copy>>

Returns(name, a, r) ==
    /\ Call(name, a, r)
    /\ res' = 0
    /\ roundtrip' = NoTrip
    /\ undefined' = FALSE

\* a call that leaves str alone
OnCopy(name, c, r) ==
    /\ ~undefined
    /\ op' = name
    /\ args' = NoArgs
    /\ copy' = c
    /\ ret' = r.ret
    /\ nalloc' = r.nalloc
    /\ refused' = r.refused
    /\ res' = 0
    /\ saved' = NoSnap
    /\ roundtrip' = NoTrip
    /\ heap' = heap + r.got - r.freed
    /\ via' = r.via
    /\ UNCHANGED <<variant, str, undefined>>

Init ==
    /\ variant \in Variants
    /\ str = NullStr
    /\ copy = NullStr
    /\ op = "none"
    /\ args = NoArgs
    /\ ret = "none"
    /\ res = 0
    /\ nalloc = 0
    /\ refused = FALSE
    /\ saved = NoSnap
    /\ roundtrip = NoTrip
    /\ undefined = FALSE
    /\ heap = 0
    /\ via = {}

StringEmpty(alloc) ==
    /\ ~str.live
    /\ Returns("string_empty", NoArgs, string_empty(variant, alloc))

\* string_dup_v is the case start = 0
StringSubV(src, start, len, alloc) ==
    /\ ~str.live
    /\ start + len <= Len(src)
    /\ Returns("string_sub_v", Args(src, start, len),
               sub_string(variant, src, start, len, alloc))

StringDup(alloc) ==
    /\ str.live /\ ~copy.live
    /\ LET r == string_dup(variant, str, alloc)
       IN  OnCopy("string_dup", r.str, r)

StringDestroy ==
    /\ str.live
    /\ Returns("string_destroy", NoArgs, string_destroy(variant, str))

StringDestroyCopy ==
    /\ copy.live
    /\ OnCopy("string_destroy", NullStr, string_destroy(variant, copy))

StringClear ==
    /\ str.live
    /\ variant \in HasCut
    /\ Returns("string_clear", NoArgs, string_clear(str))

StringCopyV(src, alloc) ==
    /\ str.live
    /\ Returns("string_copy_v", Args(src, 0, Len(src)),
               copy_string(str, src, Len(src), alloc))

\* string_cat_v in libstrings.c
StringAppendV(src, alloc) ==
    /\ str.live
    /\ str.len + Len(src) <= MaxLen
    /\ Returns("string_append_v", Args(src, 0, Len(src)),
               append_string(str, src, Len(src), alloc))

StringPrependV(src, alloc) ==
    /\ str.live
    /\ variant \in HasCut
    /\ str.len + Len(src) <= MaxLen
    /\ Returns("string_prepend_v", Args(src, 0, Len(src)),
               prepend_string(str, src, Len(src), alloc))

\* the string_cut that takes back the append or prepend just before it
Undoes(start, len) ==
    /\ ret = "0"
    /\ \/ op = "string_prepend_v" /\ start = args.len /\ len = str.len - args.len
       \/ op = "string_append_v" /\ start = 0 /\ len = saved.len

\* A string_cut whose moves stay inside the allocation returns what the code
\* computes.  One that leaves it either dies in memmove, or comes back with
\* the assignments of the code done.
StringCut(start, len) ==
    /\ str.live
    /\ variant \in HasCut
    /\ LET r == string_cut(str, start, len)
           a == Args(<<>>, start, len)
       IN  /\ IF CutOverruns(str, start, len)
              THEN /\ \/ Call("string_cut", a, r)
                      \/ Call("string_cut", a, Result("SIGSEGV", str, 0, FALSE))
                   /\ undefined' = TRUE
              ELSE /\ Call("string_cut", a, r)
                   /\ undefined' = FALSE
           /\ res' = 0
           /\ roundtrip' = IF Undoes(start, len)
                           THEN [on |-> TRUE, kind |-> op, by |-> args.len, before |-> saved]
                           ELSE NoTrip

StringPrintf(out, fail) ==
    /\ str.live
    /\ variant \in HasCut
    /\ LET r == string_printf(str, out, fail)
       IN  /\ Call("string_printf", [Args(out, 0, Len(out)) EXCEPT !.fail = fail],
                   Result("res", r.str, 0, FALSE))
           /\ res' = r.res
    /\ roundtrip' = NoTrip
    /\ undefined' = FALSE

StringReserve(size, alloc) ==
    /\ str.live
    /\ Returns("string_reserve", Args(<<>>, 0, size),
               string_reserve(str, size, alloc))

StringFit(alloc) ==
    /\ str.live
    /\ Returns("string_fit", NoArgs, string_fit(str, alloc))

Next ==
    \/ \E alloc \in Grants : StringEmpty(alloc)
    \/ \E src \in Srcs, start \in 0 .. MaxLen, len \in 0 .. MaxLen, alloc \in Grants :
          StringSubV(src, start, len, alloc)
    \/ \E alloc \in Grants : StringDup(alloc)
    \/ StringDestroy
    \/ StringDestroyCopy
    \/ StringClear
    \/ \E src \in Srcs, alloc \in BOOLEAN : StringCopyV(src, alloc)
    \/ \E src \in Srcs, alloc \in BOOLEAN : StringAppendV(src, alloc)
    \/ \E src \in Srcs, alloc \in BOOLEAN : StringPrependV(src, alloc)
    \/ \E start \in CutStarts, len \in CutLens : StringCut(start, len)
    \/ \E out \in Srcs, fail \in BOOLEAN : StringPrintf(out, fail)
    \/ \E size \in 0 .. MaxReserve, alloc \in BOOLEAN : StringReserve(size, alloc)
    \/ \E alloc \in BOOLEAN : StringFit(alloc)

Spec == Init /\ [][Next]_vars

(* --------------------- the string as its own source -------------------- *)

\* what is read through a pointer into storage that realloc has released:
\* the bytes it held, or whatever took their place
Dangling(value) == {value, [i \in 1 .. Len(value) |-> Indet]}

\* string_copy(dest, dest), string_append(dest, dest) (string_cat in
\* libstrings.c) or string_prepend(dest, dest): src points to the storage of
\* dest and len is its length.  grow[src] is what the static function hands
\* back when it reads src.  When set_string_length reallocates, src is left
\* pointing to the released storage, and a call that has bytes to copy
\* reads it or dies.
Aliased(name, moved, grow) ==
    LET a == Args(Content(str), 0, str.len)
    IN  /\ IF moved.ret = "0" /\ moved.got > 0 /\ str.len > 0
           THEN /\ \/ \E src \in Dangling(str.value) : Call(name, a, grow[src])
                   \/ Call(name, a, Result("SIGSEGV", str, 0, FALSE))
                /\ undefined' = TRUE
           ELSE /\ Call(name, a, grow[str.value])
                /\ undefined' = FALSE
        /\ res' = 0
        /\ roundtrip' = NoTrip

StringCopy(alloc) ==
    /\ str.live
    /\ Aliased("string_copy", set_string_length(str, str.len, alloc),
               [src \in Dangling(str.value) |->
                   copy_string(str, src, str.len, alloc)])

StringAppend(alloc) ==
    /\ str.live
    /\ 2 * str.len <= MaxLen
    /\ Aliased("string_append", set_string_length(str, Wrap(str.len + str.len), alloc),
               [src \in Dangling(str.value) |->
                   append_string(str, src, str.len, alloc)])

StringPrepend(alloc) ==
    /\ str.live
    /\ variant \in HasCut
    /\ 2 * str.len <= MaxLen
    /\ Aliased("string_prepend", set_string_length(str, Wrap(str.len + str.len), alloc),
               [src \in Dangling(str.value) |->
                   prepend_string(str, src, str.len, alloc)])

NextAlias ==
    \/ Next
    \/ \E alloc \in BOOLEAN : StringCopy(alloc)
    \/ \E alloc \in BOOLEAN : StringAppend(alloc)
    \/ \E alloc \in BOOLEAN : StringPrepend(alloc)

SpecAlias == Init /\ [][NextAlias]_vars

(* ---------------------- set_string_length by itself -------------------- *)

\* the static function run on str as it is, the way its callers run it
\* before they write the content
SetStringLength(len, alloc) ==
    /\ str.live
    /\ Returns("set_string_length", Args(<<>>, 0, len),
               set_string_length(str, len, alloc))

\* the constructors, the calls that change the length, and the static
\* function
NextLen ==
    \/ \E alloc \in Grants : StringEmpty(alloc)
    \/ \E src \in Srcs, start \in 0 .. MaxLen, len \in 0 .. MaxLen, alloc \in Grants :
          StringSubV(src, start, len, alloc)
    \/ StringDestroy
    \/ StringClear
    \/ \E src \in Srcs, alloc \in BOOLEAN : StringCopyV(src, alloc)
    \/ \E src \in Srcs, alloc \in BOOLEAN : StringAppendV(src, alloc)
    \/ \E src \in Srcs, alloc \in BOOLEAN : StringPrependV(src, alloc)
    \/ \E start \in CutStarts, len \in CutLens : StringCut(start, len)
    \/ \E out \in Srcs, fail \in BOOLEAN : StringPrintf(out, fail)
    \/ \E len \in 0 .. MaxLen, alloc \in BOOLEAN : SetStringLength(len, alloc)

SpecLen == Init /\ [][NextLen]_vars

(* ------------------------- very long sources --------------------------- *)

\* lengths at which the sums and the doubling of set_string_length wrap:
\* a quarter and a half of the range of size_t
WideLens == {SizeMod \div 4, SizeMod \div 2}

\* one array of letters for each such length
WideSrcs == {[i \in 1 .. n |-> 1] : n \in WideLens}

\* r is what copy_string, append_string or prepend_string hand back after
\* writing len bytes to a string that had cur_len: some write fell outside
\* the storage
GrowOverruns(r, cur_len, len) ==
    /\ r.ret = "0"
    /\ (cur_len + len > Len(r.str.value) \/ r.str.len >= Len(r.str.value))

\* A copy, append or prepend of a long source.  When its writes leave the
\* storage the call either dies or comes back with the assignments of the
\* code done.
Grows(name, src, r, cur_len) ==
    LET a == Args(src, 0, Len(src))
    IN  /\ IF GrowOverruns(r, cur_len, Len(src))
           THEN /\ \/ Call(name, a, r)
                   \/ Call(name, a, Result("SIGSEGV", str, 0, FALSE))
                /\ undefined' = TRUE
           ELSE /\ Call(name, a, r)
                /\ undefined' = FALSE
        /\ res' = 0
        /\ roundtrip' = NoTrip

WideCopyV(src, alloc) ==
    /\ str.live
    /\ Grows("string_copy_v", src, copy_string(str, src, Len(src), alloc), 0)

WideAppendV(src, alloc) ==
    /\ str.live
    /\ Grows("string_append_v", src,
             append_string(str, src, Len(src), alloc), str.len)

WidePrependV(src, alloc) ==
    /\ str.live
    /\ variant \in HasCut
    /\ Grows("string_prepend_v", src,
             prepend_string(str, src, Len(src), alloc), str.len)

\* the callers of this part build a string, trim it, and grow it by long
\* sources
NextWide ==
    \/ \E alloc \in Grants : StringEmpty(alloc)
    \/ \E src \in Srcs, start \in 0 .. MaxLen, len \in 0 .. MaxLen, alloc \in Grants :
          StringSubV(src, start, len, alloc)
    \/ StringDestroy
    \/ \E alloc \in BOOLEAN : StringFit(alloc)
    \/ \E src \in WideSrcs, alloc \in BOOLEAN : WideCopyV(src, alloc)
    \/ \E src \in WideSrcs, alloc \in BOOLEAN : WideAppendV(src, alloc)
    \/ \E src \in WideSrcs, alloc \in BOOLEAN : WidePrependV(src, alloc)

SpecWide == Init /\ [][NextWide]_vars

(* ----------------------- calls with NULL arguments --------------------- *)

Ctors == {"string_dup", "string_sub_v"}

\* the calls a revision has
Exists(v, name) ==
    v \in HasCut
    \/ name \notin {"string_clear", "string_prepend_v", "string_cut", "string_printf"}

\* the buffer argument: a struct string * in part_000, and in the other two
\* a string (char *) or, where the call may move the storage, a string *
Handle(v, name) ==
    IF name \in Ctors THEN {}
    ELSE IF v = "part_000"
            \/ name \in {"string_destroy", "string_clear", "string_printf",
                          "string_len", "string_capacity"}
    THEN {"str"}
    ELSE {"str", "*str"}

\* the pointer arguments of a call
Params(v, name) ==
    Handle(v, name)
    \cup (IF name \in Ctors
              \/ name \in {"string_copy_v", "string_append_v", "string_prepend_v"}
          THEN {"src"} ELSE {})
    \cup (IF name = "string_printf" THEN {"format"} ELSE {})

\* the pointers the first statement of a call tests
Checked(v, name) ==
    IF name = "string_printf" /\ v # "part_000"
    THEN {"str"}
    ELSE Params(v, name)

NullCalls ==
    {"string_dup", "string_sub_v", "string_destroy", "string_clear",
     "string_copy_v", "string_append_v", "string_prepend_v", "string_cut",
     "string_printf", "string_len", "string_capacity", "string_reserve",
     "string_fit"}

\* A call that is handed NULL for the pointers in null; what it returns is
\* not stored.  A NULL format that is not tested reaches vsnprintf, which
\* either reports a failure or dies on it.
NullCall(name, null) ==
    /\ Exists(variant, name)
    /\ null # {}
    /\ null \subseteq Params(variant, name)
    /\ ~({"str", "*str"} \subseteq null)
    /\ (Handle(variant, name) \cap null = {} /\ name \notin Ctors) => str.live
    /\ LET a == [NoArgs EXCEPT !.null = null]
       IN  IF null \cap Checked(variant, name) # {}
           THEN Returns(name, a,
                        Result(IF name \in Ctors THEN "NULL"
                               ELSE IF name = "string_destroy" THEN "void"
                               ELSE "-EINVAL",
                               str, 0, FALSE))
           ELSE LET r == string_printf(str, <<>>, TRUE)
                IN  /\ \/ /\ Call(name, a, Result("res", r.str, 0, FALSE))
                          /\ res' = r.res
                       \/ /\ Call(name, a, Result("SIGSEGV", str, 0, FALSE))
                          /\ res' = 0
                    /\ roundtrip' = NoTrip
                    /\ undefined' = TRUE

NextNull ==
    \/ Next
    \/ \E name \in NullCalls, null \in SUBSET {"str", "*str", "src", "format"} :
          NullCall(name, null)

SpecNull == Init /\ [][NextNull]_vars

(* ----------------------- the example of the README --------------------- *)

\* "Hello ", "world" and "!" as character codes
Hello == <<72, 101, 108, 108, 111, 32>>
World == <<119, 111, 114, 108, 100>>
Bang == <<33>>

\* the C strings a caller may pass where the example passes w
Prefixes(w) == {SubSeq(w, 1, n) : n \in 0 .. Len(w)}

\* strlen of a C string; src holds its characters, the terminator left out
strlen(src) == strnlen(src, Len(src))

\* struct string *str = string_empty();
ReadmeEmpty(alloc) ==
    /\ op = "none"
    /\ StringEmpty(alloc)

\* string_copy_c(str, "world");
ReadmeCopyC(src, alloc) ==
    /\ op = "string_empty" /\ str.live
    /\ Returns("string_copy_c", Args(src, 0, strlen(src)),
               copy_string(str, src, strlen(src), alloc))

\* string_append_c(str, "!");
ReadmeAppendC(src, alloc) ==
    /\ op = "string_copy_c" /\ str.live
    /\ Returns("string_append_c", Args(src, 0, strlen(src)),
               append_string(str, src, strlen(src), alloc))

\* string_prepend_c(str, "Hello ");
ReadmePrependC(src, alloc) ==
    /\ op = "string_append_c" /\ str.live
    /\ variant \in HasCut
    /\ Returns("string_prepend_c", Args(src, 0, strlen(src)),
               prepend_string(str, src, strlen(src), alloc))

\* string_destroy(str);
ReadmeDestroy ==
    /\ op \in {"string_append_c", "string_prepend_c"}
    /\ StringDestroy

NextReadme ==
    \/ \E alloc \in Grants : ReadmeEmpty(alloc)
    \/ \E src \in Prefixes(World), alloc \in BOOLEAN : ReadmeCopyC(src, alloc)
    \/ \E src \in Prefixes(Bang), alloc \in BOOLEAN : ReadmeAppendC(src, alloc)
    \/ \E src \in Prefixes(Hello), alloc \in BOOLEAN : ReadmePrependC(src, alloc)
    \/ ReadmeDestroy

SpecReadme == Init /\ [][NextReadme]_vars

(* ------------------------------ claims --------------------------------- *)

\* bytes[length] == 0
Terminated(s) == Peek(s.value, s.len) = 0

\* the last call reported success
Succeeded == ret \in {"0", "ptr"} \/ (ret = "res" /\ res >= 0)

Mutators ==
    {"string_copy_v", "string_append_v", "string_prepend_v", "string_cut",
     "string_clear", "string_printf", "string_reserve", "string_fit"}

Allocating ==
    {"string_copy_v", "string_append_v", "string_prepend_v",
     "string_reserve", "string_fit"}

\* C1: after every successful constructor or mutating call, the byte at
\* bytes[length] is 0 and capacity >= length + 1.
C1_Claim ==
    (str.live /\ Succeeded /\ op \in Mutators \cup {"string_empty", "string_sub_v"})
        => Terminated(str) /\ str.capacity >= str.len + 1

\* C2: when the allocator refuses the request of a copy, append, prepend,
\* reserve or fit, the call returns -ENOMEM and the string (length, capacity,
\* every byte of the storage) is what it was before the call.
C2_Thm ==
    [][(op' \in Allocating /\ refused') => (ret' = "-ENOMEM" /\ str' = str)]_vars

\* a prepend on a non-empty string that the allocator refused
C2_Wit ==
    /\ op = "string_prepend_v" /\ refused /\ ret = "-ENOMEM"
    /\ str.len > 0 /\ args.len > 0

\* C3: a successful copy, append or prepend that sets the length to L leaves
\* the capacity at 2*L + 1 when L + 1 exceeded the old capacity, and otherwise
\* leaves the capacity alone and makes no allocator call.
C3_Thm ==
    [][(op' \in {"string_copy_v", "string_append_v", "string_prepend_v"}
            /\ ret' = "0")
        => IF str'.len + 1 > str.capacity
           THEN str'.capacity = 2 * str'.len + 1
           ELSE str'.capacity = str.capacity /\ nalloc' = 0]_vars

\* an append that outgrew the capacity
C3_Wit ==
    /\ op = "string_append_v" /\ ret = "0" /\ args.len > 0
    /\ saved.capacity < str.len + 1
    /\ str.capacity = 2 * str.len + 1

\* C4: string_empty() returns length 0, capacity 1 and the terminator at
\* bytes[0], in every revision.
C4_Claim ==
    (op = "string_empty" /\ ret = "ptr")
        => str.len = 0 /\ str.capacity = 1 /\ Terminated(str)

\* C5: string_dup(b) has the length of b, the bytes of b in [0, length) and
\* capacity length + 1, whatever bytes b holds.
C5_Claim ==
    (op = "string_dup" /\ ret = "ptr")
        => /\ copy.len = str.len
           /\ Content(copy) = Content(str)
           /\ copy.capacity = str.len + 1

\* C6: after a successful copy of src (len bytes), the length is len, the
\* bytes [0, len) are those of src, zero bytes included, and bytes[len] is 0.
C6_Claim ==
    (op = "string_copy_v" /\ ret = "0")
        => /\ str.len = args.len
           /\ Content(str) = args.src
           /\ Terminated(str)

\* C7: after a successful append of src (len bytes) to a string of length L,
\* the length is L + len, the bytes [0, L) are the old content, the bytes
\* [L, L + len) are those of src and bytes[L + len] is 0.
C7_Claim ==
    (op = "string_append_v" /\ ret = "0")
        => /\ str.len = saved.len + args.len
           /\ \A i \in 0 .. saved.len - 1 :
                 Peek(str.value, i) = Peek(saved.content, i)
           /\ \A j \in 0 .. args.len - 1 :
                 Peek(str.value, saved.len + j) = Peek(args.src, j)
           /\ Terminated(str)

\* C8: after a successful prepend of src (len bytes) to a string of length L
\* and content C, the length is L + len, the bytes [0, len) are those of src,
\* the bytes [len, len + L) are C and bytes[L + len] is 0.
C8_Claim ==
    (op = "string_prepend_v" /\ ret = "0")
        => /\ str.len = saved.len + args.len
           /\ \A j \in 0 .. args.len - 1 :
                 Peek(str.value, j) = Peek(args.src, j)
           /\ \A i \in 0 .. saved.len - 1 :
                 Peek(str.value, args.len + i) = Peek(saved.content, i)
           /\ Terminated(str)

\* C9: string_cut(start, len) on a string of length n: when start + len <= n
\* it returns 0, the content is the old bytes [start, start + len), the length
\* is len, bytes[len] is 0 and the capacity is unchanged; when start + len > n
\* it returns -ERANGE and length, capacity and content are unchanged.
C9_Claim ==
    [][op' = "string_cut"
        => IF args'.start + args'.len <= str.len
           THEN /\ ret' = "0"
                /\ str'.len = args'.len
                /\ Content(str') =
                      [i \in 1 .. args'.len |-> Peek(str.value, args'.start + i - 1)]
                /\ Terminated(str')
                /\ str'.capacity = str.capacity
           ELSE /\ ret' = "-ERANGE"
                /\ Snapshot(str') = Snapshot(str)]_vars

\* C10: a successful prepend of X followed by
\* string_cut(len(X), length - len(X)) returns 0 and leaves the length L and
\* the content, bytes [0, L), the string had before the prepend.
C10_Thm ==
    (roundtrip.on /\ roundtrip.kind = "string_prepend_v")
        => /\ ret = "0"
           /\ ~undefined
           /\ str.len = roundtrip.before.len
           /\ \A i \in 0 .. str.len - 1 :
                 Peek(str.value, i) = Peek(roundtrip.before.content, i)

\* a prepend of a non-empty X to a non-empty string, taken back by the cut
C10_Wit ==
    /\ roundtrip.on /\ roundtrip.kind = "string_prepend_v"
    /\ op = "string_cut" /\ ret = "0"
    /\ args.start > 0 /\ str.len > 0

\* C11: a successful append of X to a string of length L followed by
\* string_cut(0, L) returns 0 and leaves the length L and the content, bytes
\* [0, L), the string had before the append.
C11_Thm ==
    (roundtrip.on /\ roundtrip.kind = "string_append_v")
        => /\ ret = "0"
           /\ ~undefined
           /\ str.len = roundtrip.before.len
           /\ \A i \in 0 .. str.len - 1 :
                 Peek(str.value, i) = Peek(roundtrip.before.content, i)

\* an append of a non-empty X to a non-empty string, taken back by the cut
C11_Wit ==
    /\ roundtrip.on /\ roundtrip.kind = "string_append_v"
    /\ op = "string_cut" /\ ret = "0"
    /\ args.start = 0 /\ str.len > 0 /\ roundtrip.by > 0

\* C12: string_printf whose formatter reports the count n leaves the capacity
\* alone and returns n; when n < capacity the length is n and the content is
\* the whole output; when n >= capacity the length is capacity - 1 and the
\* content is the first capacity - 1 bytes of the output; bytes[length] is 0
\* in both cases.
C12_Thm ==
    [][(op' = "string_printf" /\ ret' = "res" /\ res' >= 0)
        => LET n == Len(args'.src)
               kept == IF n < str.capacity THEN n ELSE str.capacity - 1
           IN  /\ res' = n
               /\ str'.capacity = str.capacity
               /\ Len(str'.value) = Len(str.value)
               /\ str'.len = kept
               /\ Content(str') = [i \in 1 .. kept |-> args'.src[i]]
               /\ Terminated(str')]_vars

\* a formatted write that did not fit and was truncated to a non-empty content
C12_Wit ==
    /\ op = "string_printf" /\ res >= 0
    /\ res >= str.capacity
    /\ str.len = str.capacity - 1 /\ str.len > 0

\* C13: string_reserve(n) that the allocator does not refuse returns 0; when
\* n <= capacity nothing changes and the allocator is not called; when
\* n > capacity the capacity becomes n, and the length and the bytes
\* [0, length] stay what they were.
C13_Thm ==
    [][(op' = "string_reserve" /\ ~refused')
        => /\ ret' = "0"
           /\ IF args'.len <= str.capacity
              THEN str' = str /\ nalloc' = 0
              ELSE /\ str'.capacity = args'.len
                   /\ Len(str'.value) = args'.len
                   /\ str'.len = str.len
                   /\ Snapshot(str').content = Snapshot(str).content]_vars

\* a reserve that grew a non-empty string to the size asked
C13_Wit ==
    /\ op = "string_reserve" /\ ret = "0" /\ nalloc = 1
    /\ str.capacity = args.len /\ str.len > 0
    /\ str.capacity > str.len + 1

\* C14: after a successful string_fit the capacity is length + 1, and the
\* length and the bytes [0, length] are what they were before the call.
C14_Thm ==
    [][(op' = "string_fit" /\ ret' = "0")
        => /\ str'.capacity = str'.len + 1
           /\ Len(str'.value) = str'.capacity
           /\ str'.len = str.len
           /\ Snapshot(str').content = Snapshot(str).content]_vars

\* a fit on a non-empty string
C14_Wit ==
    /\ op = "string_fit" /\ ret = "0" /\ nalloc = 1
    /\ str.len > 0 /\ str.capacity = str.len + 1

\* C17: string_clear returns 0, sets the length to 0, writes the terminator
\* at bytes[0] and leaves the capacity and the size of the storage alone.
C17_Thm ==
    [][op' = "string_clear"
        => /\ ret' = "0"
           /\ str'.len = 0
           /\ Peek(str'.value, 0) = 0
           /\ str'.capacity = str.capacity
           /\ Len(str'.value) = Len(str.value)]_vars

\* a clear of a string that had room for more than the terminator
C17_Wit ==
    /\ op = "string_clear" /\ ret = "0"
    /\ str.len = 0 /\ str.capacity > 1 /\ Peek(str.value, 1) = 1
\* C15: in the example, string_empty, string_copy_c "world",
\* string_append_c "!" and string_prepend_c "Hello ", all successful, give in
\* turn "world" with capacity 11, "world!" with capacity 11 and
\* "Hello world!" of length 12 with capacity 25.
C15_Thm ==
    /\ (op = "string_copy_c" /\ ret = "0" /\ args.src = World)
          => /\ Content(str) = World /\ Terminated(str)
             /\ str.capacity = 11
    /\ (op = "string_append_c" /\ ret = "0" /\ args.src = Bang
            /\ saved.content = World \o <<0>>)
          => /\ saved.capacity = 11
             /\ Content(str) = World \o Bang /\ Terminated(str)
             /\ str.capacity = 11
    /\ (op = "string_prepend_c" /\ ret = "0" /\ args.src = Hello
            /\ saved.content = World \o Bang \o <<0>>)
          => /\ saved.capacity = 11
             /\ Content(str) = Hello \o World \o Bang /\ Terminated(str)
             /\ str.len = 12
             /\ str.capacity = 25

\* the example ran to the prepend: "Hello world!" is in the string
C15_Wit ==
    /\ op = "string_prepend_c" /\ ret = "0" /\ args.src = Hello
    /\ saved.content = World \o Bang \o <<0>>
    /\ Content(str) = Hello \o World \o Bang
\* C16: a public call that is handed a NULL buffer, source or format returns
\* at once, -EINVAL (NULL from a constructor, nothing from string_destroy),
\* and leaves both strings as they were.
C16_Claim ==
    [][args'.null # {}
        => /\ ret' = (IF op' \in Ctors THEN "NULL"
                      ELSE IF op' = "string_destroy" THEN "void"
                      ELSE "-EINVAL")
           /\ ~undefined'
           /\ str' = str /\ copy' = copy]_vars
\* the blocks a string holds: part_000 keeps the storage in a block of its own
Owned(v, s) == IF ~s.live THEN 0 ELSE IF v = "part_000" THEN 2 ELSE 1

\* C18: after every call, successful or refused by the allocator, the blocks
\* obtained and not yet freed are exactly those of the live strings: a failed
\* constructor keeps none, a refused growth keeps the old one, and
\* string_destroy frees all the blocks of its string, each once, so that no
\* block is left when every string is destroyed.
C18_Thm == heap = Owned(variant, str) + Owned(variant, copy)

\* part_000: the storage of a new string was refused after its meta block
\* had been obtained
C18_Wit ==
    /\ variant = "part_000" /\ op \in {"string_empty", "string_sub_v", "string_dup"}
    /\ ret = "NULL" /\ nalloc = 2 /\ refused
    /\ heap = Owned(variant, str)
\* C19: a string_cut whose start + len, taken as a sum of naturals, exceeds
\* the length returns -ERANGE and moves no byte, also when the sum wraps in
\* size_t to a value that does not exceed the length.
C19_Claim ==
    [][(op' = "string_cut" /\ args'.start + args'.len > str.len)
        => /\ ret' = "-ERANGE"
           /\ ~undefined'
           /\ str' = str]_vars
\* C20: after a successful copy, append or prepend the capacity is at least
\* the length + 1, whatever the lengths of the string and of the source.
C20_Claim ==
    (op \in {"string_copy_v", "string_append_v", "string_prepend_v"} /\ ret = "0")
        => str.capacity >= str.len + 1
\* C21: a string_printf whose formatter fails returns -EINVAL and leaves the
\* string as it was, with bytes[length] = 0 and capacity >= length + 1.
C21_Claim ==
    [][(op' = "string_printf" /\ args'.fail)
        => /\ ret' = "-EINVAL"
           /\ str' = str
           /\ Terminated(str')
           /\ str'.capacity >= str'.len + 1]_vars
\* the public calls that go through copy_string, append_string and
\* prepend_string
Growing == {"string_copy_v", "string_append_v", "string_prepend_v"}

\* the public calls that shorten or rewrite the string in place
InPlace == {"string_cut", "string_clear", "string_printf"}

\* C22 as claimed: every copy, append, prepend, cut, clear or formatted write
\* that changes the length goes through set_string_length, and
\* set_string_length sets the length and writes the terminator at
\* bytes[length].
C22_Claim ==
    [][/\ (op' \in Growing \cup InPlace /\ str'.len # str.len)
            => "set_string_length" \in via'
       /\ (op' = "set_string_length" /\ ret' = "0")
            => str'.len = args'.len /\ Terminated(str')]_vars

\* C22 as amended: a copy, append or prepend that changes the length goes
\* through set_string_length; a cut, clear or formatted write never does;
\* and set_string_length sets the length, grows the storage when it must,
\* and writes no byte: every byte of the old storage is kept and the bytes
\* gained are unwritten.
C22_Thm ==
    [][/\ (op' \in Growing /\ str'.len # str.len)
            => "set_string_length" \in via'
       /\ op' \in InPlace
            => "set_string_length" \notin via'
       /\ (op' = "set_string_length" /\ ret' = "0")
            => /\ str'.len = args'.len
               /\ str'.capacity >= str'.len + 1
               /\ \A i \in 0 .. Len(str'.value) - 1 :
                     Peek(str'.value, i) = Peek(str.value, i)]_vars

\* set_string_length has set a length at which no terminator stands
C22_Wit ==
    /\ op = "set_string_length" /\ ret = "0"
    /\ str.len = args.len
    /\ ~Terminated(str)
\* C23: a copy, append or prepend whose source is the destination itself
\* reads no released storage, and when it succeeds on content C it leaves C
\* (copy) or C followed by C (append, prepend), reallocation or not.
C23_Claim ==
    [][op' \in {"string_copy", "string_append", "string_prepend"}
        => /\ ~undefined'
           /\ ret' = "0"
                => Content(str') = IF op' = "string_copy"
                                   THEN Content(str)
                                   ELSE Content(str) \o Content(str)]_vars

====
